---- MODULE Spec2Model ----
(***************************************************************************)
(* Model of src/app.py: the streaming decoder get_ai_response and the chat *)
(* interface logic that keeps st.session_state.messages.                   *)
(*                                                                         *)
(* Text is modelled by TLA+ strings; \o is Python's + on str.              *)
(***************************************************************************)
EXTENDS Integers, Sequences, FiniteSets, TLC

\* ---------------------------------------------------------------- bounds
\* user texts submitted in a session
MaxTurns == 2
\* response lines read in a session, over all its turns
MaxLines == 3

\* ------------------------------------------------------------- constants
WelcomeText == "Hello! I am the PoulStar AI Assistant. How can I help you today?"
ConnectErrorFragment == "**Error:** Could not connect to the AI server. Please try again later."
UnexpectedErrorFragment == "**An unexpected error occurred:**"
ErrorFragments == {ConnectErrorFragment, UnexpectedErrorFragment}

\* user texts typed into st.chat_input, and token texts sent by the server
UserTexts == {"Hello"}
TokenTexts == {"Hi", "!"}

Message(r, c) == [role |-> r, content |-> c]
WelcomeMessage == Message("assistant", WelcomeText)

\* ------------------------------------------------- response lines (wire)
\* The part of a data: line after the prefix, stripped.
\*   form  : "empty" (nothing left after strip), "malformed" (json.loads
\*           raises), "array" (well-formed JSON that is not an object),
\*           "object"
\*   token : of an object: the token field is "absent", "null" or "object"
\*   has_text/text : of a token object: the text field
Payload(form, token, has_text, text) ==
    [form |-> form, token |-> token, has_text |-> has_text, text |-> text]
NoPayload == Payload("empty", "absent", FALSE, "")
Payloads ==
    {NoPayload,
     Payload("malformed", "absent", FALSE, ""),
     Payload("array", "absent", FALSE, ""),
     Payload("object", "absent", FALSE, ""),
     Payload("object", "null", FALSE, ""),
     Payload("object", "object", FALSE, "")}
    \cup {Payload("object", "object", TRUE, t) : t \in TokenTexts}

\* One element of response.iter_lines(): bytes.
\*   blank : b"" (keep-alive);  utf8 : the bytes decode as UTF-8;
\*   data_prefix : the decoded text starts with "data:"
Line(blank, utf8, data_prefix, payload) ==
    [blank |-> blank, utf8 |-> utf8, data_prefix |-> data_prefix, payload |-> payload]
BlankLine == Line(TRUE, TRUE, FALSE, NoPayload)
BadUtf8Line == Line(FALSE, FALSE, FALSE, NoPayload)
OtherLine == Line(FALSE, TRUE, FALSE, NoPayload)
DataLine(p) == Line(FALSE, TRUE, TRUE, p)
Lines == {BlankLine, BadUtf8Line, OtherLine} \cup {DataLine(p) : p \in Payloads}

\* ------------------------------------------------------ decoder (pure)
Skip == [act |-> "skip", text |-> ""]
Emit(t) == [act |-> "yield", text |-> t]
Raise == [act |-> "raise", text |-> ""]

\* json.loads(json_str): raises on malformed text
json_loads_raises(json_str) == json_str.form = "malformed"

\* data["token"]["text"] in place of the two get calls: KeyError when a
\* field is absent
get_token_text_subscript(data) ==
    IF data.form # "object" THEN Raise
    ELSE IF data.token # "object" THEN Raise
    ELSE IF data.has_text THEN Emit(data.text)
    ELSE Raise

\* data.get("token", {}).get("text", ""): AttributeError when data is not a
\* dict or when token is present and not a dict
get_token_text(data) ==
    IF data.form # "object" THEN Raise
    ELSE IF data.token = "absent" THEN Emit("")
    ELSE IF data.token # "object" THEN Raise
    ELSE IF data.has_text THEN Emit(data.text)
    ELSE Emit("")

\* the loop body without the test of line 87: json.loads("") raises
DecodeLine_no_payload_test(line) ==
    IF line.blank THEN Skip
    ELSE IF ~line.utf8 THEN Raise
    ELSE IF ~line.data_prefix THEN Skip
    ELSE LET json_str == line.payload IN
         IF json_str.form \in {"empty", "malformed"} THEN Raise
         ELSE get_token_text(json_str)

\* body of the for loop over response.iter_lines()
DecodeLine(line) ==
    IF line.blank THEN Skip
    ELSE IF ~line.utf8 THEN Raise
    ELSE IF ~line.data_prefix THEN Skip
    ELSE LET json_str == line.payload IN
         IF json_str.form = "empty" THEN Skip
         ELSE IF json_loads_raises(json_str) THEN Raise
         ELSE get_token_text(json_str)

\* streamed_response = chunk in place of +=
Accumulate_overwrite(acc, chunk) == chunk

\* st.write_stream: streamed_response += chunk
Accumulate(acc, chunk) == acc \o chunk

\* --------------------------------------------------------------- state
VARIABLES
    messages,       \* st.session_state.messages
    pc,             \* position of the script run
    prompt,         \* text returned by st.chat_input in this run
    before,         \* messages as they were when chat_input returned
    encoder_input,  \* argument of tokenizer.apply_chat_template in this run
    requests,       \* number of requests.post calls made in this run
    decoder,        \* "Idle", "Reading", "Done", "Failed"
    consumed,       \* lines delivered by response.iter_lines() in this run
    frags,          \* fragments yielded by get_ai_response in this run
    full_response,  \* text accumulated by st.write_stream in this run
    exc,            \* exception raised inside get_ai_response in this run
    error_shown,    \* st.error was called in the latest run
    uncaught,       \* the latest run was ended by an uncaught exception
    received,       \* texts of the turns whose fragment sequence has ended
    turns,          \* number of user texts submitted so far
    lines_read      \* number of response lines read so far, over all turns

vars == <<messages, pc, prompt, before, encoder_input, requests, decoder,
          consumed, frags, full_response, exc, error_shown, uncaught,
          received, turns, lines_read>>

locals == <<prompt, before, encoder_input, requests, decoder, consumed,
            frags, full_response, exc>>

Init ==
    /\ messages = <<WelcomeMessage>>
    /\ pc = "idle"
    /\ prompt = ""
    /\ before = <<>>
    /\ encoder_input = <<>>
    /\ requests = 0
    /\ decoder = "Idle"
    /\ consumed = <<>>
    /\ frags = <<>>
    /\ full_response = ""
    /\ exc = "none"
    /\ error_shown = FALSE
    /\ uncaught = FALSE
    /\ received = <<>>
    /\ turns = 0
    /\ lines_read = 0

\* the locals of a script run are gone when the run ends
ResetLocals ==
    /\ prompt' = ""
    /\ before' = <<>>
    /\ encoder_input' = <<>>
    /\ requests' = 0
    /\ decoder' = "Idle"
    /\ consumed' = <<>>
    /\ frags' = <<>>
    /\ full_response' = ""
    /\ exc' = "none"

\* yield f, consumed by st.write_stream
Yield(f) ==
    /\ frags' = Append(frags, f)
    /\ full_response' = Accumulate(full_response, f)

\* the generator is exhausted: st.write_stream has the whole text
SequenceEnds == received' = Append(received, full_response')

\* ------------------------------------------------------------- actions
\* the user Message appended together with an empty assistant Message that
\* the stream is meant to fill
Submit_with_placeholder(u) ==
    /\ pc = "idle"
    /\ turns < MaxTurns
    /\ u # ""
    /\ messages' = messages \o <<Message("user", u), Message("assistant", "")>>
    /\ prompt' = u
    /\ before' = messages
    /\ turns' = turns + 1
    /\ pc' = "lookup"
    /\ error_shown' = FALSE
    /\ uncaught' = FALSE
    /\ UNCHANGED <<encoder_input, requests, decoder, consumed, frags,
                   full_response, exc, received, lines_read>>

\* if prompt := st.chat_input(...): messages.append({"role": "user", ...})
Submit(u) ==
    /\ pc = "idle"
    /\ turns < MaxTurns
    /\ u # ""
    /\ messages' = Append(messages, Message("user", u))
    /\ prompt' = u
    /\ before' = messages
    /\ turns' = turns + 1
    /\ pc' = "lookup"
    /\ error_shown' = FALSE
    /\ uncaught' = FALSE
    /\ UNCHANGED <<encoder_input, requests, decoder, consumed, frags,
                   full_response, exc, received, lines_read>>

\* hf_token = st.secrets["HF_TOKEN"] succeeds
SecretFound ==
    /\ pc = "lookup"
    /\ pc' = "encode"
    /\ UNCHANGED <<messages, prompt, before, encoder_input, requests, decoder,
                   consumed, frags, full_response, exc, error_shown, uncaught,
                   received, turns, lines_read>>

\* no secrets file: FileNotFoundError, st.error(...), return
SecretFileMissing ==
    /\ pc = "lookup"
    /\ exc' = "FileNotFoundError"
    /\ error_shown' = TRUE
    /\ pc' = "returned"
    /\ UNCHANGED <<frags, full_response>>
    /\ SequenceEnds
    /\ UNCHANGED <<messages, prompt, before, encoder_input, requests, decoder,
                   consumed, uncaught, turns, lines_read>>

\* an exception leaves get_ai_response and st.write_stream: the run ends
\* before line 119
RunAborted ==
    /\ pc' = "idle"
    /\ uncaught' = TRUE
    /\ ResetLocals
    /\ UNCHANGED <<messages, error_shown, received, turns, lines_read>>

\* secrets file without the HF_TOKEN key: KeyError, not caught at line 61
SecretKeyMissing ==
    /\ pc = "lookup"
    /\ RunAborted

\* prompt_string = tokenizer.apply_chat_template(messages, ...)
EncodeOk ==
    /\ pc = "encode"
    /\ encoder_input' = messages
    /\ pc' = "post"
    /\ UNCHANGED <<messages, prompt, before, requests, decoder, consumed,
                   frags, full_response, exc, error_shown, uncaught, received,
                   turns, lines_read>>

\* apply_chat_template raises (outside the try of line 79)
EncodeRaises ==
    /\ pc = "encode"
    /\ RunAborted

\* requests.post(...) and response.raise_for_status() succeed
PostOk ==
    /\ pc = "post"
    /\ requests' = requests + 1
    /\ decoder' = "Reading"
    /\ pc' = "reading"
    /\ UNCHANGED <<messages, prompt, before, encoder_input, consumed, frags,
                   full_response, exc, error_shown, uncaught, received, turns, lines_read>>

\* except RequestException: pass
TransportFailure_silent ==
    /\ exc' = "RequestException"
    /\ UNCHANGED <<frags, full_response>>
    /\ decoder' = "Failed"
    /\ pc' = "returned"
    /\ SequenceEnds
    /\ UNCHANGED <<messages, prompt, before, encoder_input, consumed,
                   error_shown, uncaught, turns, lines_read>>

\* except RequestException: the text streamed so far is replaced by the
\* error text
TransportFailure_discards_partial ==
    /\ exc' = "RequestException"
    /\ frags' = Append(frags, ConnectErrorFragment)
    /\ full_response' = ConnectErrorFragment
    /\ decoder' = "Failed"
    /\ pc' = "returned"
    /\ SequenceEnds
    /\ UNCHANGED <<messages, prompt, before, encoder_input, consumed,
                   error_shown, uncaught, turns, lines_read>>

\* except requests.exceptions.RequestException: yield the error text
TransportFailure ==
    /\ exc' = "RequestException"
    /\ Yield(ConnectErrorFragment)
    /\ decoder' = "Failed"
    /\ pc' = "returned"
    /\ SequenceEnds
    /\ UNCHANGED <<messages, prompt, before, encoder_input, consumed,
                   error_shown, uncaught, turns, lines_read>>

\* connection failure, timeout or non-2xx status at requests.post
PostFails ==
    /\ pc = "post"
    /\ requests' = requests + 1
    /\ TransportFailure

\* one iteration of for line in response.iter_lines()
ReadLine(line) ==
    /\ pc = "reading"
    /\ lines_read < MaxLines
    /\ lines_read' = lines_read + 1
    /\ consumed' = Append(consumed, line)
    /\ LET r == DecodeLine(line) IN
       CASE r.act = "skip" ->
              UNCHANGED <<frags, full_response, decoder, pc, exc, received>>
         [] r.act = "yield" ->
              /\ Yield(r.text)
              /\ UNCHANGED <<decoder, pc, exc, received>>
         [] r.act = "raise" ->
              /\ exc' = "Exception"
              /\ Yield(UnexpectedErrorFragment)
              /\ decoder' = "Failed"
              /\ pc' = "returned"
              /\ SequenceEnds
    /\ UNCHANGED <<messages, prompt, before, encoder_input, requests,
                   error_shown, uncaught, turns>>

\* iter_lines raises a RequestException (connection lost, read timeout)
StreamFails ==
    /\ pc = "reading"
    /\ UNCHANGED requests
    /\ TransportFailure

\* iter_lines is exhausted: the generator returns
StreamEnd ==
    /\ pc = "reading"
    /\ decoder' = "Done"
    /\ pc' = "returned"
    /\ UNCHANGED <<frags, full_response>>
    /\ SequenceEnds
    /\ UNCHANGED <<messages, prompt, before, encoder_input, requests,
                   consumed, exc, error_shown, uncaught, turns, lines_read>>

\* a failed turn committed as its last fragment alone
Commit_error_only ==
    /\ pc = "returned"
    /\ messages' = Append(messages, Message("assistant",
          IF exc \in {"RequestException", "Exception"}
          THEN frags[Len(frags)] ELSE full_response))
    /\ pc' = "idle"
    /\ ResetLocals
    /\ UNCHANGED <<error_shown, uncaught, received, turns, lines_read>>

\* messages.append({"role": "assistant", "content": full_response})
Commit ==
    /\ pc = "returned"
    /\ messages' = Append(messages, Message("assistant", full_response))
    /\ pc' = "idle"
    /\ ResetLocals
    /\ UNCHANGED <<error_shown, uncaught, received, turns, lines_read>>

Next ==
    \/ \E u \in UserTexts : Submit(u)
    \/ SecretFound
    \/ SecretFileMissing
    \/ SecretKeyMissing
    \/ EncodeOk
    \/ EncodeRaises
    \/ PostOk
    \/ PostFails
    \/ \E line \in Lines : ReadLine(line)
    \/ StreamFails
    \/ StreamEnd
    \/ Commit

Spec == Init /\ [][Next]_vars

TypeOK ==
    /\ pc \in {"idle", "lookup", "encode", "post", "reading", "returned"}
    /\ decoder \in {"Idle", "Reading", "Done", "Failed"}
    /\ requests \in 0..1
    /\ Len(consumed) <= MaxLines
    /\ turns \in 0..MaxTurns
    /\ lines_read \in 0..MaxLines

\* ------------------------------------------------ operators for claims
RECURSIVE Concat(_)
Concat(fs) == IF fs = <<>> THEN "" ELSE Head(fs) \o Concat(Tail(fs))

Front(s) == SubSeq(s, 1, Len(s) - 1)
Last(s) == s[Len(s)]
IsPrefix(s, t) == Len(s) <= Len(t) /\ SubSeq(t, 1, Len(s)) = s
StartsWith(str, pre) == Len(pre) <= Len(str) /\ SubSeq(str, 1, Len(pre)) = pre
Contains(str, sub) ==
    \E i \in 1..(Len(str) - Len(sub) + 1) : SubSeq(str, i, i + Len(sub) - 1) = sub

IsAssistant(m) == m.role = "assistant"
IsUser(m) == m.role = "user"
RECURSIVE Contents(_)
Contents(ms) == IF ms = <<>> THEN <<>> ELSE <<Head(ms).content>> \o Contents(Tail(ms))
AssistantContents(ms) == Contents(SelectSeq(ms, IsAssistant))

\* a line that is non-blank, starts with data: and has a payload left
\* after stripping
CarriesEvent(l) == ~l.blank /\ l.data_prefix /\ l.payload.form # "empty"
\* token.text of the event of a line; "" when token or text is absent
TokenTextOf(l) ==
    IF l.payload.token = "object" /\ l.payload.has_text THEN l.payload.text ELSE ""
RECURSIVE TokenTexts_(_)
TokenTexts_(ls) ==
    IF ls = <<>> THEN <<>> ELSE <<TokenTextOf(Head(ls))>> \o TokenTexts_(Tail(ls))
ExpectedFragments(ls) == TokenTexts_(SelectSeq(ls, CarriesEvent))

\* the event of the line is an object without token, or with a token object
\* without text
MissingField(l) ==
    /\ CarriesEvent(l)
    /\ l.payload.form = "object"
    /\ \/ l.payload.token = "absent"
       \/ l.payload.token = "object" /\ ~l.payload.has_text

CommitStep == pc = "returned" /\ pc' = "idle"
StreamFailed == exc \in {"RequestException", "Exception"}

\* ----------------------------------------------------------------- C1
\* every line is valid UTF-8 and every data: line carries nothing, or a
\* JSON object whose token field is absent or an object
ObjectEventsOnly(ls) ==
    \A i \in DOMAIN ls :
        /\ ls[i].utf8
        /\ ls[i].data_prefix =>
             \/ ls[i].payload.form = "empty"
             \/ /\ ls[i].payload.form = "object"
                /\ ls[i].payload.token \in {"absent", "object"}
\* every data: line carries well-formed JSON
WellFormedJsonOnly(ls) ==
    \A i \in DOMAIN ls : ls[i].data_prefix => ls[i].payload.form # "malformed"
NoTransportError == decoder # "Idle" /\ exc # "RequestException"

\* C1 (as amended): when the lines arrive without transport error, every
\* line is valid UTF-8 and every data: line carries a JSON object whose token
\* field is absent or an object, the fragments yielded are exactly the
\* token.text of the non-blank data: lines with a non-empty payload, in
\* arrival order, and the sequence ends normally when the lines end.
C1_FragmentsInArrivalOrder ==
    (NoTransportError /\ ObjectEventsOnly(consumed)) =>
        /\ decoder \in {"Reading", "Done"}
        /\ exc = "none"
        /\ frags = ExpectedFragments(consumed)

\* C1 (as stated): the same for every sequence of lines whose data: lines
\* carry well-formed JSON.
C1_AsStated ==
    (NoTransportError /\ WellFormedJsonOnly(consumed)) =>
        /\ decoder \in {"Reading", "Done"}
        /\ exc = "none"
        /\ frags = ExpectedFragments(consumed)

C1_Witness ==
    /\ decoder = "Done"
    /\ consumed = <<DataLine(Payload("object", "object", TRUE, "Hi")), BlankLine,
                    DataLine(Payload("object", "object", TRUE, "!"))>>
    /\ frags = <<"Hi", "!">>

\* ----------------------------------------------------------------- C2
\* C2: a data: line whose event lacks token, or text inside token, makes the
\* decoder yield the empty fragment and stay in Reading, with no error.
C2_MissingFieldYieldsEmpty ==
    [][(pc = "reading" /\ consumed' # consumed /\ MissingField(Last(consumed')))
         => /\ frags' = Append(frags, "")
            /\ decoder' = "Reading"
            /\ pc' = "reading"
            /\ exc' = "none"]_vars

C2_Witness ==
    /\ decoder = "Done"
    /\ consumed = <<DataLine(Payload("object", "absent", FALSE, "")),
                    DataLine(Payload("object", "object", FALSE, "")),
                    DataLine(Payload("object", "object", TRUE, "Hi"))>>
    /\ frags = <<"", "", "Hi">>

\* ----------------------------------------------------------------- C3
LinesBeforeFailure == IF exc = "Exception" THEN Front(consumed) ELSE consumed
FailedShape ==
    decoder = "Failed" =>
        /\ StreamFailed
        /\ pc = "returned"
        /\ requests = 1
        /\ frags # <<>>
        /\ Last(frags) \in ErrorFragments
        /\ Front(frags) = ExpectedFragments(LinesBeforeFailure)
        /\ \A i \in 1..(Len(frags) - 1) : frags[i] \notin ErrorFragments
FailureFails ==
    /\ StreamFailed => decoder = "Failed"
    /\ (\E i \in DOMAIN consumed : DecodeLine(consumed[i]).act = "raise")
          => decoder = "Failed"

\* C3: after a transport error or a malformed data: line the fragments are
\* those of the lines decoded before the failure followed by exactly one
\* error fragment; nothing is yielded and no request is issued afterwards.
C3_OneFinalErrorFragment ==
    /\ [](FailedShape /\ FailureFails)
    /\ [][decoder = "Failed" =>
            /\ frags' \in {frags, <<>>}
            /\ requests' <= requests
            /\ decoder' \in {"Failed", "Idle"}]_vars

C3_Witness ==
    /\ decoder = "Failed"
    /\ exc = "Exception"
    /\ Len(consumed) = 3
    /\ consumed[3] = DataLine(Payload("malformed", "absent", FALSE, ""))
    /\ frags = <<"Hi", "!", UnexpectedErrorFragment>>

\* ----------------------------------------------------------------- C4
InitialConversation == <<WelcomeMessage>>
TurnAppendsTwo ==
    CommitStep =>
        messages' = before \o <<Message("user", prompt),
                                Message("assistant", Concat(frags))>>
HelloTurn ==
    /\ CommitStep
    /\ turns = 1
    /\ prompt = "Hello"
    /\ frags = <<"Hi", "!">>

C5_MissingTokenDoesNotAdvance ==
    /\ [](exc = "FileNotFoundError" => error_shown /\ requests = 0)
    /\ [][(CommitStep /\ exc = "FileNotFoundError") => messages' = before]_vars

\* ----------------------------------------------------------------- C6
\* C6: on a transport or decode error the assistant Message committed for
\* the turn is the fragments received before the failure followed by the
\* single error fragment.
C6_ErrorCommittedInline ==
    [][(CommitStep /\ StreamFailed) =>
         /\ Len(messages') = Len(messages) + 1
         /\ IsAssistant(Last(messages'))
         /\ Last(frags) \in ErrorFragments
         /\ \A i \in 1..(Len(frags) - 1) : frags[i] \notin ErrorFragments
         /\ Last(messages').content = Concat(Front(frags)) \o Last(frags)]_vars

C6_Witness ==
    /\ pc = "idle"
    /\ IsAssistant(Last(messages))
    /\ Last(messages).content = "Hi" \o UnexpectedErrorFragment

\* ----------------------------------------------------------------- C7
PartialText == Concat(Front(frags))
FailsAfterPartialOutput ==
    /\ CommitStep
    /\ exc = "RequestException"
    /\ Len(frags) >= 2
    /\ PartialText # ""

\* C7 (as amended): when the request fails after partial output, the text
\* streamed before the failure is kept: the assistant Message committed for
\* the turn starts with it and continues with the error fragment.
C7_PartialTextRetained ==
    [][FailsAfterPartialOutput =>
         /\ StartsWith(Last(messages').content, PartialText)
         /\ Len(Last(messages').content) > Len(PartialText)
         /\ Contains(Last(messages').content, ConnectErrorFragment)]_vars

\* C7 (as stated): the text streamed before the failure appears in no
\* Message of the Conversation after the turn.
C7_AsStated ==
    [][FailsAfterPartialOutput =>
         \A i \in DOMAIN messages' : ~Contains(messages'[i].content, PartialText)]_vars

C7_Witness ==
    /\ pc = "idle"
    /\ IsAssistant(Last(messages))
    /\ Last(messages).content = "Hi!" \o ConnectErrorFragment

\* ----------------------------------------------------------------- C8
ReceivedBeforeThisTurn == IF pc = "returned" THEN Front(received) ELSE received

C9_NoFailureEscapes ==
    /\ ~uncaught
    /\ pc = "idle" => IsAssistant(Last(messages))

\* ---------------------------------------------------------------- C10
\* C10: at most one request is outstanding, and no two user Messages are
\* appended without an assistant Message between them.
C10_OneRequestAtATime ==
    /\ requests <= 1
    /\ requests = 1 => pc \in {"reading", "returned"}
    /\ \A i \in 1..(Len(messages) - 1) :
          ~(IsUser(messages[i]) /\ IsUser(messages[i + 1]))
====
